---- MODULE Spec2Model ----
(***************************************************************************)
(* The two Streamlit dashboards of the repository, as state machines.      *)
(*                                                                         *)
(*   Spec       one run (one interaction cycle) of dashboard-filters.py    *)
(*   SpecBasic  one run of dashboard.py                                    *)
(*   SpecRoles  the column-name normalisation and the role inference of    *)
(*              dashboard-filters.py over arbitrary headers                *)
(*                                                                         *)
(* A column name is a sequence of one-character strings.  A cell is a      *)
(* record [k, s, n]: k is "str" (text s), "num" (number n), "ts" (a parsed *)
(* date/time, ordinal n) or "nan" (missing: NaN, None, NaT).               *)
(***************************************************************************)
EXTENDS Integers, Sequences, FiniteSets, TLC

\* ------------------------------------------------------------------ bounds
MaxRows == 2   \* rows of a table the data source returns
MaxCols == 2   \* columns of a header in SpecRoles

\* ------------------------------------------------------------ text helpers
UpperChars == << "A","B","C","D","E","F","G","H","I","J","K","L","M",
                 "N","O","P","Q","R","S","T","U","V","W","X","Y","Z" >>
LowerChars == << "a","b","c","d","e","f","g","h","i","j","k","l","m",
                 "n","o","p","q","r","s","t","u","v","w","x","y","z" >>
Whitespace == {" ", "\t"}

\* str.lower() on one character
LowerChar(c) ==
  IF \E i \in 1..Len(UpperChars) : UpperChars[i] = c
  THEN LowerChars[CHOOSE i \in 1..Len(UpperChars) : UpperChars[i] = c]
  ELSE c

\* str.lower()
lower(s) == [i \in 1..Len(s) |-> LowerChar(s[i])]

\* str.strip(): leading and trailing whitespace removed
RECURSIVE lstrip(_)
lstrip(s) == IF s # << >> /\ Head(s) \in Whitespace THEN lstrip(Tail(s)) ELSE s
RECURSIVE rstrip(_)
rstrip(s) ==
  IF s # << >> /\ s[Len(s)] \in Whitespace THEN rstrip(SubSeq(s, 1, Len(s) - 1)) ELSE s
strip(s) == rstrip(lstrip(s))

\* str.replace(" ", "_")
replace_space(s) == [i \in 1..Len(s) |-> IF s[i] = " " THEN "_" ELSE s[i]]

\* `sub in s` on Python strings
Contains(sub, s) ==
  \E i \in 0..(Len(s) - Len(sub)) : SubSeq(s, i + 1, i + Len(sub)) = sub

\* df.columns.str.strip().str.replace(" ", "_").str.lower()
NormalizeName(s) == lower(replace_space(strip(s)))

\* ---------------------------------------------------------- role inference
T_income == << "i","n","c","o","m","e" >>
T_gender == << "g","e","n","d","e","r" >>
T_neigh  == << "n","e","i","g","h" >>
T_municipality == << "m","u","n","i","c","i","p","a","l","i","t","y" >>
T_year   == << "y","e","a","r" >>
T_month  == << "m","o","n","t","h" >>
T_date   == << "d","a","t","e" >>
T_lat    == << "l","a","t" >>
T_lon    == << "l","o","n" >>
T_lng    == << "l","n","g" >>

\* the substrings each list comprehension tests
possible_income_triggers == {T_income}
possible_gender_triggers == {T_gender}
possible_neigh_triggers  == {T_neigh, T_municipality}
possible_time_triggers   == {T_year, T_month, T_date}
lat_triggers == {T_lat}
lon_triggers == {T_lon, T_lng}

\* faulty variant: "and" in place of "or" between the substring tests
Possible_and(columns, triggers) ==
  SelectSeq(columns, LAMBDA col : \A t \in triggers : Contains(t, col))

\* [col for col in columns if t1 in col or t2 in col ...]
Possible(columns, triggers) ==
  SelectSeq(columns, LAMBDA col : \E t \in triggers : Contains(t, col))

\* [col for col in columns if t in col.lower() ...]   (lat_cols, lon_cols)
PossibleLower(columns, triggers) ==
  SelectSeq(columns, LAMBDA col : \E t \in triggers : Contains(t, lower(col)))

NoCol == << >>   \* no column: the None of an axis

\* -------------------------------------------------------------------- cells
S(t)  == [k |-> "str", s |-> t,  n |-> 0]
N(x)  == [k |-> "num", s |-> "", n |-> x]
TS(d) == [k |-> "ts",  s |-> "", n |-> d]
NaN   == [k |-> "nan", s |-> "", n |-> 0]

IsNull(c) == c.k = "nan"           \* pandas isna(): NaN, None and NaT

\* pd.to_datetime(text, errors="coerce"): the day the text names, counted from
\* 2019-12-31, or NaT when the text is no date
ParseDate(t) ==
  CASE t = "2020-01-01" -> TS(1)
    [] t = "2020-01-03" -> TS(3)
    [] OTHER            -> NaN

\* pd.to_datetime(column, errors="coerce") on one cell of an object column
to_datetime(c) ==
  CASE c.k = "str" -> ParseDate(c.s)
    [] c.k = "num" -> TS(c.n)
    [] c.k = "ts"  -> c
    [] OTHER       -> NaN

\* ------------------------------------------------------------------- tables
\* A table (DataFrame): columns (names), dtypes (one per column), rows.  A
\* column holds text and missing values (object) or numbers and missing values
\* (int64, float64); the time filter turns a column into datetime64.
Column(d, i) == [r \in 1..Len(d.rows) |-> d.rows[r][i]]

\* the dtype read_csv infers for a column of cells
InferDType(vals) ==
  IF Len(vals) = 0 \/ \E i \in 1..Len(vals) : vals[i].k = "str" THEN "object"
  ELSE IF \E i \in 1..Len(vals) : vals[i].k = "nan" THEN "float64"
  ELSE "int64"

\* df[name] is a single column (a Series) only when the name occurs once
Occurrences(d, name) == Cardinality({i \in 1..Len(d.columns) : d.columns[i] = name})
ColIndex(d, name) == CHOOSE i \in 1..Len(d.columns) : d.columns[i] = name

\* df.dropna(how="all"): rows whose every cell is missing are removed
dropna_all(d) ==
  [d EXCEPT !.rows = SelectSeq(d.rows, LAMBDA r : \E i \in 1..Len(r) : ~IsNull(r[i]))]

\* df.dropna(subset=[name])
dropna_subset(d, name) ==
  [d EXCEPT !.rows = SelectSeq(d.rows, LAMBDA r : ~IsNull(r[ColIndex(d, name)]))]

\* faulty variant: unique() without dropna()
Options_keepna(d, name) ==
  {d.rows[r][ColIndex(d, name)] : r \in 1..Len(d.rows)}

\* df[name].dropna().unique().tolist(), as a set
Options(d, name) ==
  {d.rows[r][ColIndex(d, name)] : r \in 1..Len(d.rows)} \ {NaN}

\* faulty variant: a missing value passes the membership test
isin_or_missing(c, values) == c.k = "nan" \/ c \in values

\* Series.isin(values) on one cell.  A datetime64 column compares its values
\* with text by parsing the text, and with nothing when some text is no date.
isin(c, values) ==
  IF c.k = "ts" /\ \A v \in values : v.k = "str" /\ ~IsNull(ParseDate(v.s))
  THEN \E v \in values : ParseDate(v.s) = c
  ELSE c \in values

\* faulty variant: the mask is applied one row late, so the first row is always lost
filter_isin_skipfirst(d, name, selected) ==
  [d EXCEPT !.rows = SelectSeq(IF d.rows = << >> THEN << >> ELSE Tail(d.rows),
                               LAMBDA r : isin(r[ColIndex(d, name)], selected))]

\* df[df[name].isin(selected)]
filter_isin(d, name, selected) ==
  [d EXCEPT !.rows = SelectSeq(d.rows, LAMBDA r : isin(r[ColIndex(d, name)], selected))]

\* df[name] = pd.to_datetime(df[name], errors="coerce")
parse_column(d, name) ==
  LET j == ColIndex(d, name) IN
  [d EXCEPT !.dtypes = [@ EXCEPT ![j] = "datetime64"],
            !.rows = [r \in 1..Len(d.rows) |->
                        [d.rows[r] EXCEPT ![j] = to_datetime(d.rows[r][j])]]]

\* lines 64-66: parse an object column, then drop the rows with no time value
time_prepare(d, name) ==
  dropna_subset(IF d.dtypes[ColIndex(d, name)] = "object" THEN parse_column(d, name) ELSE d,
                name)

\* faulty variant: strict comparisons
InRange_exclusive(c, lo, hi) ==
  /\ ~IsNull(c) /\ ~IsNull(lo) /\ ~IsNull(hi)
  /\ c.n > lo.n /\ c.n < hi.n

\* v >= lo and v <= hi on cells; a comparison with a missing value is False
InRange(c, lo, hi) ==
  /\ ~IsNull(c) /\ ~IsNull(lo) /\ ~IsNull(hi)
  /\ c.n >= lo.n /\ c.n <= hi.n

\* df[(df[name] >= range[0]) & (df[name] <= range[1])]
filter_range(d, name, range) ==
  [d EXCEPT !.rows = SelectSeq(d.rows,
      LAMBDA r : InRange(r[ColIndex(d, name)], range[1], range[2]))]

Min(xs) == CHOOSE x \in xs : \A y \in xs : x <= y
Max(xs) == CHOOSE x \in xs : \A y \in xs : x >= y

\* df[name].min() / .max(): NaN (NaT) on an empty column
col_min(d, name) ==
  LET j == ColIndex(d, name) IN
  IF d.rows = << >> THEN NaN
  ELSE [d.rows[1][j] EXCEPT !.n = Min({d.rows[r][j].n : r \in 1..Len(d.rows)})]
col_max(d, name) ==
  LET j == ColIndex(d, name) IN
  IF d.rows = << >> THEN NaN
  ELSE [d.rows[1][j] EXCEPT !.n = Max({d.rows[r][j].n : r \in 1..Len(d.rows)})]

\* df.select_dtypes(include=['float64', 'int64']).columns
numeric_columns(d) ==
  LET idx == SelectSeq([i \in 1..Len(d.columns) |-> i],
                       LAMBDA i : d.dtypes[i] \in {"float64", "int64"})
  IN [k \in 1..Len(idx) |-> d.columns[idx[k]]]

HeadRows == 20
\* df.head(20)
head(d) ==
  [d EXCEPT !.rows = SubSeq(d.rows, 1, IF Len(d.rows) < HeadRows THEN Len(d.rows) ELSE HeadRows)]

\* ------------------------------------------------------------------- inputs
\* raw column names of the CSV files the data source may return
R_income_group == << " ","I","n","c","o","m","e"," ","G","r","o","u","p" >>
R_gender == << "G","e","n","d","e","r" >>
R_gender2 == << "g","e","n","d","e","r"," " >>
R_municipality == << "M","u","n","i","c","i","p","a","l","i","t","y" >>
R_date == << "D","a","t","e" >>
R_year == << "y","e","a","r" >>
R_income_date == << "i","n","c","o","m","e","_","d","a","t","e" >>
R_lat == << "l","a","t" >>
R_lon == << "L","o","n" >>
R_lat_lon == << "l","a","t","_","l","o","n" >>
R_value_a == << "v","a","l","u","e","_","a" >>
R_value_b == << "v","a","l","u","e","_","b" >>
R_value_c == << "v","a","l","u","e","_","c" >>
R_notes == << "n","o","t","e","s" >>
R_population == << "p","o","p","u","l","a","t","i","o","n" >>
R_in_come == << "I","n"," ","c","o","m","e" >>
R_lng == << "L","N","G","\t" >>
R_neighbourhood == << "N","e","i","g","h","b","o","u","r","h","o","o","d" >>
R_month == << " ","M","o","n","t","h" >>

\* the values a cell of each column may hold
Dom(raw) ==
  CASE raw = R_income_group -> {S("low"), S("high"), NaN}
    [] raw = R_gender       -> {S("f"), NaN}
    [] raw = R_gender2      -> {S("m")}
    [] raw = R_municipality -> {S("north")}
    [] raw = R_date         -> {S("2020-01-01"), S("2020-01-03"), S("unknown")}
    [] raw = R_year         -> {N(2020), N(2021), NaN}
    [] raw = R_income_date  -> {S("2020-01-01"), S("unknown")}
    [] raw = R_lat          -> {N(10), N(95)}
    [] raw = R_lon          -> {N(20), N(190)}
    [] raw = R_lat_lon      -> {N(10)}
    [] raw = R_value_a      -> {N(1), NaN}
    [] raw = R_value_b      -> {N(2)}
    [] raw = R_value_c      -> {N(3)}
    [] raw = R_notes        -> {S("low"), NaN}
    [] OTHER                -> {NaN}

\* the headers of those CSV files
Headers ==
  { << R_income_group, R_gender, R_municipality, R_value_b, R_value_c >>,
    << R_gender, R_year, R_value_b >>,
    << R_gender, R_date, R_value_b, R_value_c >>,
    << R_income_date, R_value_b, R_value_c >>,
    << R_gender, R_value_a >>,
    << R_gender, R_gender2, R_value_b, R_value_c >>,
    << R_lat, R_lon, R_value_b >>,
    << R_lat, R_value_a, R_value_b >>,
    << R_lat_lon, R_value_b >> }

\* every row over a header
RECURSIVE RowsOver(_)
RowsOver(h) ==
  IF h = << >> THEN { << >> }
  ELSE { << c >> \o r : c \in Dom(Head(h)), r \in RowsOver(Tail(h)) }

\* pd.read_csv(csv_url): the table of a CSV file with header h and the given rows
read_csv(h, rows) ==
  LET d == [columns |-> h, dtypes |-> [i \in 1..Len(h) |-> "object"], rows |-> rows]
  IN [d EXCEPT !.dtypes = [i \in 1..Len(h) |-> InferDType(Column(d, i))]]

\* a CSV file holds one to MaxRows data rows
RowSeqs(h) == UNION { [1..n -> RowsOver(h)] : n \in 1..MaxRows }
Tables == UNION { { read_csv(h, rows) : rows \in RowSeqs(h) } : h \in Headers }

\* the answers of the catalogue API: the request or the JSON lookup fails, or
\* the metadata lists resources; a resource has a format (None when absent)
F_csv   == << "c","s","v" >>
F_CSV   == << "C","S","V" >>
F_xlsx  == << "X","L","S","X" >>
None    == << "None" >>                \* no string of characters equals it
Res(f, u) == [format |-> f, url |-> u]
MetaResponses ==
  { [ok |-> FALSE, resources |-> << >>],
    [ok |-> TRUE,  resources |-> << >>],
    [ok |-> TRUE,  resources |-> << Res(F_xlsx, "u1") >>],
    [ok |-> TRUE,  resources |-> << Res(F_xlsx, "u1"), Res(F_CSV, "u2"), Res(None, "u3") >>],
    [ok |-> TRUE,  resources |-> << Res(F_csv, "u1"), Res(F_CSV, "u2") >>],
    [ok |-> TRUE,  resources |-> << Res(None, "u1"), Res(F_csv, "u2") >>] }

\* next((r["url"] for r in resources if r["format"].lower() == "csv"), None):
\* "raise" when a format met before the first CSV resource has no lower()
RECURSIVE first_csv(_)
first_csv(rs) ==
  IF rs = << >> THEN "None"
  ELSE IF Head(rs).format = None THEN "raise"
  ELSE IF lower(Head(rs).format) = F_csv THEN Head(rs).url
  ELSE first_csv(Tail(rs))

\* -------------------------------------------------------------------- state
VARIABLES
  pc,               \* the statement the script is at
  resources,        \* response.json()["result"]["resources"]
  csv_url,
  df,               \* the DataFrame
  possible_income, possible_gender, possible_neigh, possible_time,
  lat_cols, lon_cols,
  income_options, gender_options, neigh_options,
  selected_income, selected_gender, selected_neigh,
  selected_range,   \* << start, end >> of the slider
  chart,            \* what px.scatter was given, NoChart before
  map_data,         \* the rows st.map was given
  preview,          \* the rows st.dataframe was given
  page,             \* the elements the run has put on the page, in order
  raw_columns,      \* history: df.columns as read_csv returned them
  cleaned,          \* history: df after the cleaning step
  before_time       \* history: df when the time filter starts

metaVars == << resources, csv_url >>
roleVars == << possible_income, possible_gender, possible_neigh, possible_time >>
geoVars  == << lat_cols, lon_cols >>
incomeVars == << income_options, selected_income >>
genderVars == << gender_options, selected_gender >>
neighVars  == << neigh_options, selected_neigh >>
outVars  == << chart, map_data, preview >>
histVars == << raw_columns, cleaned, before_time >>
vars == << pc, metaVars, df, roleVars, geoVars, incomeVars, genderVars, neighVars,
           selected_range, outVars, page, histVars >>

NoTable == [columns |-> << >>, dtypes |-> << >>, rows |-> << >>]
NoChart == [x |-> NoCol, y |-> NoCol, color |-> NoCol, rows |-> << >>, drawn |-> FALSE]
NoRange == << NaN, NaN >>

Blank ==
  /\ resources = << >> /\ csv_url = "None"
  /\ df = NoTable
  /\ possible_income = << >> /\ possible_gender = << >>
  /\ possible_neigh = << >> /\ possible_time = << >>
  /\ lat_cols = << >> /\ lon_cols = << >>
  /\ income_options = {} /\ gender_options = {} /\ neigh_options = {}
  /\ selected_income = {} /\ selected_gender = {} /\ selected_neigh = {}
  /\ selected_range = NoRange
  /\ chart = NoChart /\ map_data = << >> /\ preview = << >>
  /\ page = << >>
  /\ raw_columns = << >> /\ cleaned = NoTable /\ before_time = NoTable

\* ------------------------------------------------- dashboard-filters.py
Init == pc = "fetch" /\ Blank

\* an element of the page: its kind, and for an error the exception it shows
El(kind) == [kind |-> kind, text |-> ""]
Shown(kind) == \E i \in 1..Len(page) : page[i].kind = kind

\* except Exception as e: st.error(f"Error processing dataset: {e}"), then the footer
Raise(e) ==
  /\ page' = Append(page, [kind |-> "error", text |-> e])
  /\ pc' = "footer"

\* lines 23-24: the metadata request; outside every try block
FetchMetadata ==
  /\ pc = "fetch"
  /\ \E r \in MetaResponses :
       IF r.ok
       THEN /\ resources' = r.resources
            /\ pc' = "find"
       ELSE /\ pc' = "crashed"
            /\ UNCHANGED resources
  /\ UNCHANGED << csv_url, df, roleVars, geoVars, incomeVars, genderVars, neighVars,
                  selected_range, outVars, page, histVars >>

\* lines 27-29 and 108-109: the first CSV resource, or the warning
FindCsv ==
  /\ pc = "find"
  /\ LET u == first_csv(resources) IN
       CASE u = "raise" -> /\ pc' = "crashed"
                           /\ UNCHANGED << csv_url, page >>
         [] u = "None"  -> /\ csv_url' = u
                           /\ page' = Append(page, El("warning"))
                           /\ pc' = "footer"
         [] OTHER       -> /\ csv_url' = u
                           /\ pc' = "read"
                           /\ UNCHANGED page
  /\ UNCHANGED << resources, df, roleVars, geoVars, incomeVars, genderVars, neighVars,
                  selected_range, outVars, histVars >>

\* line 31: pd.read_csv(csv_url) returns a table or raises
ReadCsv ==
  /\ pc = "read"
  /\ \/ \E t \in Tables :
          /\ df' = t
          /\ raw_columns' = t.columns
          /\ pc' = "clean"
          /\ UNCHANGED page
     \/ /\ Raise("read_csv")
        /\ UNCHANGED << df, raw_columns >>
  /\ UNCHANGED << metaVars, roleVars, geoVars, incomeVars, genderVars, neighVars,
                  selected_range, outVars, cleaned, before_time >>

\* lines 34-41: the names normalised, the empty rows dropped, the roles inferred
Clean ==
  /\ pc = "clean"
  /\ LET d == dropna_all([df EXCEPT !.columns =
                            [i \in 1..Len(df.columns) |-> NormalizeName(df.columns[i])]])
     IN /\ df' = d
        /\ cleaned' = d
        /\ possible_income' = Possible(d.columns, possible_income_triggers)
        /\ possible_gender' = Possible(d.columns, possible_gender_triggers)
        /\ possible_neigh'  = Possible(d.columns, possible_neigh_triggers)
        /\ possible_time'   = Possible(d.columns, possible_time_triggers)
  /\ pc' = "income"
  /\ UNCHANGED << metaVars, geoVars, incomeVars, genderVars, neighVars,
                  selected_range, outVars, page, raw_columns, before_time >>

\* lines 44-48
FilterIncome ==
  /\ pc = "income"
  /\ IF possible_income = << >>
     THEN /\ pc' = "gender"
          /\ UNCHANGED << df, incomeVars, page >>
     ELSE LET income_col == possible_income[1] IN
          IF Occurrences(df, income_col) > 1
          THEN /\ Raise("DataFrame has no unique")
               /\ UNCHANGED << df, incomeVars >>
          ELSE /\ income_options' = Options(df, income_col)
               /\ \E selected \in SUBSET Options(df, income_col) :
                    /\ selected_income' = selected
                    /\ df' = filter_isin(df, income_col, selected)
               /\ pc' = "gender"
               /\ UNCHANGED page
  /\ UNCHANGED << metaVars, roleVars, geoVars, genderVars, neighVars,
                  selected_range, outVars, histVars >>

\* lines 50-54
FilterGender ==
  /\ pc = "gender"
  /\ IF possible_gender = << >>
     THEN /\ pc' = "neigh"
          /\ UNCHANGED << df, genderVars, page >>
     ELSE LET gender_col == possible_gender[1] IN
          IF Occurrences(df, gender_col) > 1
          THEN /\ Raise("DataFrame has no unique")
               /\ UNCHANGED << df, genderVars >>
          ELSE /\ gender_options' = Options(df, gender_col)
               /\ \E selected \in SUBSET Options(df, gender_col) :
                    /\ selected_gender' = selected
                    /\ df' = filter_isin(df, gender_col, selected)
               /\ pc' = "neigh"
               /\ UNCHANGED page
  /\ UNCHANGED << metaVars, roleVars, geoVars, incomeVars, neighVars,
                  selected_range, outVars, histVars >>

\* lines 56-60
FilterNeigh ==
  /\ pc = "neigh"
  /\ IF possible_neigh = << >>
     THEN /\ pc' = "time"
          /\ UNCHANGED << df, neighVars, page >>
     ELSE LET neigh_col == possible_neigh[1] IN
          IF Occurrences(df, neigh_col) > 1
          THEN /\ Raise("DataFrame has no unique")
               /\ UNCHANGED << df, neighVars >>
          ELSE /\ neigh_options' = Options(df, neigh_col)
               /\ \E selected \in SUBSET Options(df, neigh_col) :
                    /\ selected_neigh' = selected
                    /\ df' = filter_isin(df, neigh_col, selected)
               /\ pc' = "time"
               /\ UNCHANGED page
  /\ UNCHANGED << metaVars, roleVars, geoVars, incomeVars, genderVars,
                  selected_range, outVars, histVars >>

\* lines 62-70.  The slider is taken to accept the type of its bounds and to
\* return a range inside [min_date, max_date]; over a column with no value left
\* its bounds are NaN (NaT), and the widget either raises or hands them back.
FilterTime ==
  /\ pc = "time"
  /\ before_time' = df
  /\ IF possible_time = << >>
     THEN /\ pc' = "chart"
          /\ UNCHANGED << df, selected_range, page >>
     ELSE LET time_col == possible_time[1] IN
          IF Occurrences(df, time_col) > 1
          THEN /\ Raise("DataFrame has no dtype")
               /\ UNCHANGED << df, selected_range >>
          ELSE LET d == time_prepare(df, time_col)
                   min_date == col_min(d, time_col)
                   max_date == col_max(d, time_col)
               IN IF d.rows = << >>
                  THEN \/ /\ Raise("slider")
                          /\ df' = d
                          /\ UNCHANGED selected_range
                       \/ /\ selected_range' = << min_date, max_date >>
                          /\ df' = filter_range(d, time_col, << min_date, max_date >>)
                          /\ pc' = "chart"
                          /\ UNCHANGED page
                  ELSE /\ \E a \in min_date.n..max_date.n, b \in min_date.n..max_date.n :
                            /\ a <= b
                            /\ selected_range' = << [min_date EXCEPT !.n = a],
                                                    [min_date EXCEPT !.n = b] >>
                            /\ df' = filter_range(d, time_col,
                                       << [min_date EXCEPT !.n = a], [min_date EXCEPT !.n = b] >>)
                       /\ pc' = "chart"
                       /\ UNCHANGED page
  /\ UNCHANGED << metaVars, roleVars, geoVars, incomeVars, genderVars, neighVars,
                  outVars, raw_columns, cleaned >>

C_none == << "n","o","n","e" >>     \* the "none" entry of the colour selectbox

\* line 82: the options of the "Color by" selectbox
color_options ==
  { IF possible_income # << >> THEN possible_income[1] ELSE C_none,
    IF possible_gender # << >> THEN possible_gender[1] ELSE C_none,
    IF possible_neigh  # << >> THEN possible_neigh[1]  ELSE C_none }

\* lines 79-92.  The y selectbox starts at index 1 and raises when there is one
\* numeric column only; with none, both axes are None and px.scatter works on
\* the whole frame in its wide form, which raises or draws.
Chart ==
  /\ pc = "chart"
  /\ LET numeric == numeric_columns(df)
         axes    == IF numeric = << >> THEN {NoCol} ELSE {numeric[i] : i \in 1..Len(numeric)}
     IN \E raises \in (IF Len(numeric) = 1 THEN {TRUE}
                       ELSE IF Len(numeric) = 0 THEN {TRUE, FALSE} ELSE {FALSE}) :
          IF raises
          THEN /\ Raise(IF Len(numeric) = 1 THEN "selectbox index" ELSE "scatter")
               /\ UNCHANGED chart
          ELSE /\ \E x_axis \in axes, y_axis \in axes, color_by \in color_options :
                    chart' = [x |-> x_axis, y |-> y_axis, color |-> color_by,
                              rows |-> df.rows, drawn |-> TRUE]
               /\ page' = Append(page, El("chart"))
               /\ pc' = "map"
  /\ UNCHANGED << metaVars, df, roleVars, geoVars, incomeVars, genderVars, neighVars,
                  selected_range, map_data, preview, histVars >>

\* lines 95-99: st.map is given the two columns of every row; when one column
\* has both roles the rename leaves no "lat" column and st.map raises
Map ==
  /\ pc = "map"
  /\ lat_cols' = PossibleLower(df.columns, lat_triggers)
  /\ lon_cols' = PossibleLower(df.columns, lon_triggers)
  /\ IF lat_cols' # << >> /\ lon_cols' # << >>
     THEN IF lat_cols'[1] = lon_cols'[1]
          THEN /\ Raise("map")
               /\ UNCHANGED map_data
          ELSE /\ map_data' = [r \in 1..Len(df.rows) |->
                                 [lat |-> df.rows[r][ColIndex(df, lat_cols'[1])],
                                  lon |-> df.rows[r][ColIndex(df, lon_cols'[1])]]]
               /\ page' = Append(page, El("map"))
               /\ pc' = "preview"
     ELSE /\ pc' = "preview"
          /\ UNCHANGED << map_data, page >>
  /\ UNCHANGED << metaVars, df, roleVars, incomeVars, genderVars, neighVars,
                  selected_range, chart, preview, histVars >>

\* lines 102-103
Preview ==
  /\ pc = "preview"
  /\ preview' = head(df).rows
  /\ page' = Append(page, El("preview"))
  /\ pc' = "footer"
  /\ UNCHANGED << metaVars, df, roleVars, geoVars, incomeVars, genderVars, neighVars,
                  selected_range, chart, map_data, histVars >>

\* lines 112-113
Footer ==
  /\ pc = "footer"
  /\ page' = Append(page, El("footer"))
  /\ pc' = "done"
  /\ UNCHANGED << metaVars, df, roleVars, geoVars, incomeVars, genderVars, neighVars,
                  selected_range, outVars, histVars >>

Next ==
  \/ FetchMetadata
  \/ FindCsv
  \/ ReadCsv
  \/ Clean
  \/ FilterIncome
  \/ FilterGender
  \/ FilterNeigh
  \/ FilterTime
  \/ Chart
  \/ Map
  \/ Preview
  \/ Footer

Spec == Init /\ [][Next]_vars

\* lines 44-70 as one function of the table: the filters of the run, with the
\* accepted sets and the range the widgets returned
apply_filters(d) ==
  LET d1 == IF possible_income # << >>
            THEN filter_isin(d, possible_income[1], selected_income) ELSE d
      d2 == IF possible_gender # << >>
            THEN filter_isin(d1, possible_gender[1], selected_gender) ELSE d1
      d3 == IF possible_neigh # << >>
            THEN filter_isin(d2, possible_neigh[1], selected_neigh) ELSE d2
  IN IF possible_time # << >>
     THEN filter_range(time_prepare(d3, possible_time[1]), possible_time[1], selected_range)
     ELSE d3

\* ------------------------------------------------------------ dashboard.py
HeadDefault == 5
\* df.head()
head_default(d) ==
  [d EXCEPT !.rows = SubSeq(d.rows, 1,
                            IF Len(d.rows) < HeadDefault THEN Len(d.rows) ELSE HeadDefault)]

\* lines 27-28: the table is loaded or pd.read_csv raises
BasicLoad ==
  /\ pc = "read"
  /\ \/ \E t \in Tables :
          /\ df' = t
          /\ raw_columns' = t.columns
          /\ page' = Append(page, El("success"))
          /\ pc' = "basic_preview"
     \/ /\ Raise("read_csv")
        /\ UNCHANGED << df, raw_columns >>
  /\ UNCHANGED << metaVars, roleVars, geoVars, incomeVars, genderVars, neighVars,
                  selected_range, outVars, cleaned, before_time >>

\* lines 31-32
BasicPreview ==
  /\ pc = "basic_preview"
  /\ preview' = head_default(df).rows
  /\ page' = Append(page, El("preview"))
  /\ pc' = "basic_chart"
  /\ UNCHANGED << metaVars, df, roleVars, geoVars, incomeVars, genderVars, neighVars,
                  selected_range, chart, map_data, histVars >>

\* lines 36-49: the selectboxes offer every column and start at indexes 0, 1
\* and 2, which raises on a table of fewer than three columns
BasicChart ==
  /\ pc = "basic_chart"
  /\ IF Len(df.columns) < 3
     THEN /\ Raise("selectbox index")
          /\ UNCHANGED chart
     ELSE /\ \E x_col \in 1..Len(df.columns), y_col \in 1..Len(df.columns),
                color_col \in 1..Len(df.columns) :
               chart' = [x |-> df.columns[x_col], y |-> df.columns[y_col],
                         color |-> df.columns[color_col], rows |-> df.rows, drawn |-> TRUE]
          /\ page' = Append(page, El("chart"))
          /\ pc' = "footer"
  /\ UNCHANGED << metaVars, df, roleVars, geoVars, incomeVars, genderVars, neighVars,
                  selected_range, map_data, preview, histVars >>

NextBasic ==
  \/ FetchMetadata
  \/ FindCsv
  \/ BasicLoad
  \/ BasicPreview
  \/ BasicChart
  \/ Footer

SpecBasic == Init /\ [][NextBasic]_vars

\* ------------------------------------- role inference over arbitrary headers
RawNames ==
  { R_income_group, R_gender, R_gender2, R_municipality, R_date, R_year, R_income_date,
    R_lat, R_lon, R_lat_lon, R_value_a, R_value_b, R_value_c, R_notes, R_population,
    R_in_come, R_lng, R_neighbourhood, R_month }

\* headers of one to MaxCols distinct names (read_csv renames a repeated name)
RoleHeaders ==
  { h \in UNION { [1..n -> RawNames] : n \in 1..MaxCols } :
      \A i, j \in 1..Len(h) : i # j => h[i] # h[j] }

InitRoles ==
  /\ pc = "clean"
  /\ \E h \in RoleHeaders :
       /\ df = read_csv(h, << >>)
       /\ raw_columns = h
  /\ resources = << >> /\ csv_url = "None"
  /\ possible_income = << >> /\ possible_gender = << >>
  /\ possible_neigh = << >> /\ possible_time = << >>
  /\ lat_cols = << >> /\ lon_cols = << >>
  /\ income_options = {} /\ gender_options = {} /\ neigh_options = {}
  /\ selected_income = {} /\ selected_gender = {} /\ selected_neigh = {}
  /\ selected_range = NoRange
  /\ chart = NoChart /\ map_data = << >> /\ preview = << >>
  /\ page = << >>
  /\ cleaned = NoTable /\ before_time = NoTable

\* lines 95-96 on their own: the latitude and longitude roles
GeoRoles ==
  /\ pc = "income"
  /\ lat_cols' = PossibleLower(df.columns, lat_triggers)
  /\ lon_cols' = PossibleLower(df.columns, lon_triggers)
  /\ pc' = "roles"
  /\ UNCHANGED << metaVars, df, roleVars, incomeVars, genderVars, neighVars,
                  selected_range, outVars, page, histVars >>

NextRoles ==
  \/ Clean
  \/ GeoRoles

SpecRoles == InitRoles /\ [][NextRoles]_vars

\* ===================================================================== claims
\* the position of a column name in a table whose names are distinct
Pos(d, name) == CHOOSE i \in 1..Len(d.columns) : d.columns[i] = name
Indexes(n) == [i \in 1..n |-> i]

\* ---- C1 --------------------------------------------------------------------
\* the name with its leading and trailing whitespace removed, every space
\* turned to an underscore and every letter lowercased
Core(raw) ==
  LET solid == {k \in 1..Len(raw) : raw[k] \notin Whitespace}
  IN IF solid = {} THEN << >> ELSE SubSeq(raw, Min(solid), Max(solid))
Canon(raw) ==
  LET core == Core(raw)
  IN [i \in 1..Len(core) |-> IF core[i] = " " THEN "_" ELSE LowerChar(core[i])]

C1_FirstMatch(possible, triggers) ==
  LET names == [i \in 1..Len(raw_columns) |-> Canon(raw_columns[i])]
      hits  == {i \in 1..Len(names) : \E t \in triggers : Contains(t, names[i])}
  IN IF hits = {} THEN possible = << >>
     ELSE possible # << >> /\ possible[1] = names[Min(hits)]

\* C1: once the roles are inferred, each of the six roles is unmapped exactly
\* when no normalised column name contains one of its trigger substrings, and
\* is otherwise mapped to the first such column in the table's column order.
C1_RoleInference ==
  pc = "roles" =>
    /\ C1_FirstMatch(possible_income, {T_income})
    /\ C1_FirstMatch(possible_gender, {T_gender})
    /\ C1_FirstMatch(possible_neigh, {T_neigh, T_municipality})
    /\ C1_FirstMatch(possible_time, {T_year, T_month, T_date})
    /\ C1_FirstMatch(lat_cols, {T_lat})
    /\ C1_FirstMatch(lon_cols, {T_lon, T_lng})

\* a header whose second column, named with capitals and spaces, takes the
\* region role, the first matching nothing but "lat", and income stays unmapped
C1_Witness ==
  /\ pc = "roles"
  /\ raw_columns = << R_population, R_municipality >>
  /\ possible_neigh # << >> /\ possible_neigh[1] # raw_columns[2]
  /\ lat_cols # << >> /\ lat_cols[1] = R_population
  /\ possible_income = << >>

\* ---- C2 --------------------------------------------------------------------
C2_Accepted(r) ==
  /\ possible_income # << >> =>
       /\ ~IsNull(r[Pos(cleaned, possible_income[1])])
       /\ r[Pos(cleaned, possible_income[1])] \in selected_income
  /\ possible_gender # << >> =>
       /\ ~IsNull(r[Pos(cleaned, possible_gender[1])])
       /\ r[Pos(cleaned, possible_gender[1])] \in selected_gender
  /\ possible_neigh # << >> =>
       /\ ~IsNull(r[Pos(cleaned, possible_neigh[1])])
       /\ r[Pos(cleaned, possible_neigh[1])] \in selected_neigh

\* C2: when the three categorical filters have run, the table holds exactly the
\* rows of the cleaned table, in their order, whose value in every mapped role's
\* column is present and a member of that role's accepted set.
C2_CategoricalFilter ==
  pc = "time" =>
    /\ df.columns = cleaned.columns
    /\ df.rows = SelectSeq(cleaned.rows, C2_Accepted)

\* income narrowed to one of two groups, gender filtered too, and a row lost
C2_Witness ==
  /\ pc = "time"
  /\ possible_income # << >> /\ possible_gender # << >> /\ possible_neigh # << >>
  /\ Cardinality(income_options) = 2 /\ Cardinality(selected_income) = 1
  /\ selected_gender # {}
  /\ Len(df.rows) = 1 /\ Len(cleaned.rows) = 2

\* ---- C3 --------------------------------------------------------------------
\* the date/time a cell of the time column stands for, missing when it has none
C3_TimeValue(c) ==
  IF before_time.dtypes[Pos(before_time, possible_time[1])] = "object"
  THEN (IF c.k = "str" THEN ParseDate(c.s) ELSE NaN)
  ELSE c
C3_Kept(i) ==
  LET v == C3_TimeValue(before_time.rows[i][Pos(before_time, possible_time[1])])
  IN /\ ~IsNull(v)
     /\ ~IsNull(selected_range[1]) /\ ~IsNull(selected_range[2])
     /\ selected_range[1].n <= v.n /\ v.n <= selected_range[2].n
C3_Parseable ==
  {i \in 1..Len(before_time.rows) :
     ~IsNull(C3_TimeValue(before_time.rows[i][Pos(before_time, possible_time[1])]))}
C3_FullRange ==
  /\ C3_Parseable # {}
  /\ \A i \in C3_Parseable :
       LET v == C3_TimeValue(before_time.rows[i][Pos(before_time, possible_time[1])])
       IN selected_range[1].n <= v.n /\ v.n <= selected_range[2].n

\* C3: when the time filter has run on a mapped time column, the table holds
\* exactly the rows whose time value parses and lies in the inclusive selected
\* range, with the value parsed; with the full range selected it holds as many
\* rows as had a parseable value.
C3_TimeFilter ==
  (pc = "chart" /\ possible_time # << >>) =>
    LET j    == Pos(before_time, possible_time[1])
        kept == SelectSeq(Indexes(Len(before_time.rows)), C3_Kept)
    IN /\ df.rows = [k \in 1..Len(kept) |->
                       [before_time.rows[kept[k]] EXCEPT ![j] = C3_TimeValue(@)]]
       /\ C3_FullRange => Len(df.rows) = Cardinality(C3_Parseable)

\* a text date column with one unparseable value in two rows, the full range
\* selected: one row remains
C3_Witness ==
  /\ pc = "chart" /\ possible_time # << >>
  /\ before_time.dtypes[Pos(before_time, possible_time[1])] = "object"
  /\ Len(before_time.rows) = 2
  /\ Cardinality(C3_Parseable) = 1
  /\ C3_FullRange
  /\ Len(df.rows) = 1

\* ---- C4 --------------------------------------------------------------------
\* the categorical filters have run and one of them was given the empty set,
\* on a table with no time column (so that no slider is drawn over it)
C4_EmptyAccepted ==
  /\ before_time # NoTable
  /\ possible_time = << >>
  /\ \/ possible_income # << >> /\ selected_income = {}
     \/ possible_gender # << >> /\ selected_gender = {}
     \/ possible_neigh # << >> /\ selected_neigh = {}

\* C4: a run in which a categorical role was given the empty accepted set ends
\* with an empty table, the chart and the preview shown, and no error shown
\* (stated for the tables without a time column).
C4_EmptyIsNoError ==
  (pc = "done" /\ C4_EmptyAccepted) =>
    /\ df.rows = << >>
    /\ ~Shown("error")
    /\ Shown("chart") /\ Shown("preview")

\* ---- C5 --------------------------------------------------------------------
\* every categorical filter was left at its default, all the options offered
C5_Defaults ==
  /\ possible_income # << >> => selected_income = income_options
  /\ possible_gender # << >> => selected_gender = gender_options
  /\ possible_neigh # << >> => selected_neigh = neigh_options

C5_NoneMissing(r) ==
  /\ possible_income # << >> => ~IsNull(r[Pos(cleaned, possible_income[1])])
  /\ possible_gender # << >> => ~IsNull(r[Pos(cleaned, possible_gender[1])])
  /\ possible_neigh # << >> => ~IsNull(r[Pos(cleaned, possible_neigh[1])])

\* C5 as stated: with the defaults the categorical filters are the identity on
\* the cleaned table, missing values or not.
C5_DefaultIsIdentity ==
  (pc = "time" /\ C5_Defaults) => df.rows = cleaned.rows

\* C5 as amended: with the defaults the categorical filters keep exactly the
\* rows of the cleaned table that have a value in every mapped role's column,
\* so they are the identity when no such value is missing.
C5_DefaultKeepsPresent ==
  (pc = "time" /\ C5_Defaults) =>
    /\ df.rows = SelectSeq(cleaned.rows, C5_NoneMissing)
    /\ (\A i \in 1..Len(cleaned.rows) : C5_NoneMissing(cleaned.rows[i])) => df.rows = cleaned.rows

\* defaults everywhere, two rows, one of them without a value in a role's column
C5_Witness ==
  /\ pc = "time" /\ C5_Defaults
  /\ possible_income # << >> /\ possible_gender # << >>
  /\ income_options # {} /\ gender_options # {}
  /\ Len(cleaned.rows) = 2 /\ Len(df.rows) = 1

\* ---- C6 --------------------------------------------------------------------
\* the time role's column holds text, which the time filter parses in place,
\* and is the column of a categorical role as well
C6_ParsedColumnShared ==
  /\ possible_time # << >>
  /\ cleaned.dtypes[Pos(cleaned, possible_time[1])] = "object"
  /\ \/ possible_income # << >> /\ possible_income[1] = possible_time[1]
     \/ possible_gender # << >> /\ possible_gender[1] = possible_time[1]
     \/ possible_neigh # << >> /\ possible_neigh[1] = possible_time[1]

C7_ChartFailed ==
  \E i \in 1..Len(page) :
    page[i].kind = "error" /\ page[i].text \in {"selectbox index", "scatter"}

\* C7: a run whose chart step failed shows the failure and still presents the
\* filtered-data preview.
C7_ChartFailureKeepsPreview ==
  (pc = "done" /\ C7_ChartFailed) => Shown("error") /\ Shown("preview")

\* ---- C8 --------------------------------------------------------------------
\* C8: no failure ends the run as an unhandled exception: every run gets to
\* the footer, with a warning or an error shown for whatever failed.
C8_NoUnhandledFailure ==
  /\ pc # "crashed"
  /\ pc = "done" => Shown("footer")

\* ---- C9 --------------------------------------------------------------------
\* C9: the map is given rows only when both a latitude and a longitude column
\* are mapped, and every row it is given has a numeric latitude in [-90, 90]
\* and a numeric longitude in [-180, 180].
C9_MapRowsInRange ==
  /\ Shown("map") => lat_cols # << >> /\ lon_cols # << >>
  /\ ~Shown("map") => map_data = << >>
  /\ \A i \in 1..Len(map_data) :
       /\ map_data[i].lat.k = "num" /\ map_data[i].lat.n >= -90 /\ map_data[i].lat.n <= 90
       /\ map_data[i].lon.k = "num" /\ map_data[i].lon.n >= -180 /\ map_data[i].lon.n <= 180

\* ---- C10 -------------------------------------------------------------------
C10_Numeric(name) ==
  /\ \E i \in 1..Len(df.columns) : df.columns[i] = name
  /\ df.dtypes[Pos(df, name)] \in {"float64", "int64"}

\* C10: a chart is drawn only over an x and a y column that are columns of the
\* table and numeric, and then from every row of the table.
C10_ChartNeedsNumericAxes ==
  chart.drawn =>
    /\ C10_Numeric(chart.x) /\ C10_Numeric(chart.y)
    /\ chart.rows = df.rows

====
